---------------------------- MODULE Spec2Model ----------------------------
(***************************************************************************)
(* A model of pandas_flashcards.py: the deck loader (load_cards), the     *)
(* topic filter (choose_topic_subset) and the session engine (run_quiz).  *)
(*                                                                         *)
(* Text is modelled as a sequence of one-character strings, so that the   *)
(* string operations of the source (strip, lstrip, lower, split, `in`)    *)
(* are computed character by character.  Python lists are sequences; the  *)
(* card indices kept in the work queue are 0-based as in the source, so   *)
(* the card at queue cursor i is cards[indices[i + 1] + 1].               *)
(***************************************************************************)
EXTENDS Integers, Sequences, FiniteSets, TLC

VARIABLES
    pc,               \* position of the program
    file_exists,      \* load_cards: p.exists()
    deck,             \* load_cards: the lines of the deck file, terminators removed
    final_newline,    \* load_cards: whether the last line of the file ends in "\n"
    line_no,          \* load_cards: number of the last line read
    current_section,  \* load_cards: current_section
    cards,            \* the card list (being built, filtered, or drilled)
    out,              \* messages printed by load_cards and choose_topic_subset
    error,            \* exception raised by load_cards, or NoError
    request,          \* choose_topic_subset: the line typed at the topic prompt
    chosen,           \* choose_topic_subset: the returned list
    indices,          \* run_quiz: indices
    i,                \* run_quiz: i
    idx,              \* run_quiz: idx
    correct,          \* run_quiz: correct
    total_seen,       \* run_quiz: total_seen
    quitting,         \* run_quiz: quitting
    last_msg,         \* run_quiz: the last thing printed
    shown,            \* run_quiz: the calls of print_question, in order: cursor and card index
    grades,           \* run_quiz: the terminal commands read at the grade prompt, in order,
                      \* each with the cursor and the card index it was read for
    report            \* run_quiz: the session summary printed

vars == <<pc, file_exists, deck, final_newline, line_no, current_section, cards,
          out, error, request, chosen, indices, i, idx, correct, total_seen,
          quitting, last_msg, shown, grades, report>>

loadVars == <<file_exists, deck, final_newline, line_no, current_section, error>>
chooseVars == <<request, chosen>>
quizVars == <<indices, i, idx, correct, total_seen, quitting, last_msg, shown,
              grades, report>>

-----------------------------------------------------------------------------
(* Bounds of the model. *)

MaxLines == 3
MaxFilterCards == 3
MaxCards == 2
MaxStruggles == 2

-----------------------------------------------------------------------------
(* Text: Python's str operations on sequences of characters. *)

SEPARATOR == <<":", ":", ":">>

None == <<"<None>">>
NoError == "none"

Whitespace == {" ", "\t", "\n", "\r"}

LowerChar(c) ==
    CASE c = "A" -> "a"
      [] c = "B" -> "b"
      [] c = "C" -> "c"
      [] c = "G" -> "g"
      [] c = "H" -> "h"
      [] c = "Q" -> "q"
      [] c = "S" -> "s"
      [] c = "X" -> "x"
      [] OTHER -> c

Lower(s) == [k \in 1..Len(s) |-> LowerChar(s[k])]

Drop(s, n) == SubSeq(s, n + 1, Len(s))

Take(s, n) == SubSeq(s, 1, n)

\* number of leading characters of s that satisfy the test "is in set cs"
RECURSIVE LeadingIn(_, _)
LeadingIn(s, cs) ==
    IF s # <<>> /\ Head(s) \in cs THEN 1 + LeadingIn(Tail(s), cs) ELSE 0

RECURSIVE TrailingIn(_, _)
TrailingIn(s, cs) ==
    IF s # <<>> /\ s[Len(s)] \in cs THEN 1 + TrailingIn(Take(s, Len(s) - 1), cs) ELSE 0

LStripChars(s, cs) == Drop(s, LeadingIn(s, cs))

RStripChars(s, cs) == Take(s, Len(s) - TrailingIn(s, cs))

Strip(s) == RStripChars(LStripChars(s, Whitespace), Whitespace)

StartsWith(s, p) == Len(s) >= Len(p) /\ Take(s, Len(p)) = p

\* position of the first occurrence of sub in s, 0 when there is none
RECURSIVE FindFrom(_, _, _)
FindFrom(s, sub, k) ==
    IF k + Len(sub) - 1 > Len(s) THEN 0
    ELSE IF SubSeq(s, k, k + Len(sub) - 1) = sub THEN k
    ELSE FindFrom(s, sub, k + 1)

Find(s, sub) == FindFrom(s, sub, 1)

Contains(s, sub) == Find(s, sub) # 0

\* str.split(sep): cut at every occurrence of sep, left to right, not overlapping
RECURSIVE Split(_, _)
Split(s, sep) ==
    LET k == Find(s, sep)
    IN  IF k = 0 THEN <<s>>
        ELSE <<Take(s, k - 1)>> \o Split(Drop(s, k + Len(sep) - 1), sep)

SeqRange(s) == {s[k] : k \in 1..Len(s)}

-----------------------------------------------------------------------------
(* The deck loader: load_cards. *)

\* the lines a deck file is made of
LineSamples ==
    {<<" ">>,
     <<" ", "#", " ", "A">>,
     <<"#", "#", "B", ":", ":", ":", "a", " ">>,
     <<"#">>,
     <<"#", " ", "#", "a">>,
     <<"a", ":", ":", "b">>,
     <<"a", ":", ":", ":", "b">>,
     <<" ", "a", " ", ":", ":", ":", " ", "b", " ", ":", ":", ":", " ", "B", ",", " ", "a",
       ",", ",", "A", " ">>,
     <<":", ":", ":", "b">>,
     <<"a", ":", ":", ":", " ">>,
     <<"a", ":", ":", ":", "b", ":", ":", ":", "a", ":", ":", ":", "b">>,
     <<"a", ":", ":", ":", ":", "b", ":", ":", ":", ",">>}

Decks == UNION {[1..n -> LineSamples] : n \in 0..MaxLines}

\* the k-th line as iteration over the file yields it: with its terminator
FileLine(k) ==
    IF k < Len(deck) \/ final_newline THEN Append(deck[k], "\n") ELSE deck[k]

NonBlank(t) == Strip(t) # <<>>

StripLower(t) == Lower(Strip(t))

\* [t.strip().lower() for t in topic_str.split(",") if t.strip()]
ExtraTopics(topic_str) ==
    LET kept == SelectSeq(Split(topic_str, <<",">>), NonBlank)
    IN  [k \in 1..Len(kept) |-> StripLower(kept[k])]

\* Dedup keeping every occurrence
Dedup_KeepsAll(topics) == topics

\* the deduplication loop: keep the first occurrence of each topic
RECURSIVE Dedup(_)
Dedup(topics) ==
    IF topics = <<>> THEN <<>>
    ELSE LET deduped == Dedup(Take(topics, Len(topics) - 1))
             t == topics[Len(topics)]
         IN  IF t \in SeqRange(deduped) THEN deduped ELSE Append(deduped, t)

\* variant: a section is any value other than None, the empty text included
CardTopics_EmptySectionCounts(section, topic_str) ==
    LET fromSection == IF section # None THEN <<Lower(section)>> ELSE <<>>
        fromField == IF topic_str # <<>> THEN ExtraTopics(topic_str) ELSE <<>>
    IN  Dedup(fromSection \o fromField)

\* the topics of a card read under section `section` with third field topic_str
CardTopics(section, topic_str) ==
    LET fromSection == IF section # None /\ section # <<>> THEN <<Lower(section)>> ELSE <<>>
        fromField == IF topic_str # <<>> THEN ExtraTopics(topic_str) ELSE <<>>
    IN  Dedup(fromSection \o fromField)

\* LineParts without the strip of each part
LineParts_Unstripped(raw) == Split(raw, SEPARATOR)

\* [part.strip() for part in raw.split(SEPARATOR)]
LineParts(raw) ==
    LET pieces == Split(raw, SEPARATOR)
    IN  [k \in 1..Len(pieces) |-> Strip(pieces[k])]

\* "# Indexing / selection" -> "Indexing / selection"
SectionOf(stripped) == Strip(LStripChars(stripped, {"#"}))

Warning(n, msg) == [line |-> n, msg |-> msg]

LoadInit ==
    /\ pc = "load_cards"
    /\ file_exists \in BOOLEAN
    /\ deck \in (IF file_exists THEN Decks ELSE {<<>>})
    /\ final_newline \in (IF deck # <<>> THEN BOOLEAN ELSE {FALSE})
    /\ line_no = 0 /\ current_section = None /\ cards = <<>>
    /\ out = <<>> /\ error = NoError
    /\ request = None /\ chosen = None
    /\ indices = <<>> /\ i = 0 /\ idx = 0 /\ correct = 0 /\ total_seen = 0
    /\ quitting = FALSE /\ last_msg = "" /\ shown = <<>> /\ grades = <<>>
    /\ report = None

\* the file is looked up and opened
LoadOpen ==
    /\ pc = "load_cards"
    /\ IF ~file_exists
         THEN /\ error' = "FileNotFoundError"
              /\ pc' = "load_failed"
              /\ UNCHANGED <<cards, current_section>>
         ELSE /\ cards' = <<>>
              /\ current_section' = None
              /\ pc' = "load_loop"
              /\ UNCHANGED error
    /\ UNCHANGED <<file_exists, deck, final_newline, line_no, out>>
    /\ UNCHANGED <<chooseVars, quizVars>>

\* one iteration of the loop over the lines of the file
LoadLine ==
    /\ pc = "load_loop"
    /\ line_no < Len(deck)
    /\ line_no' = line_no + 1
    /\ LET raw == RStripChars(FileLine(line_no + 1), {"\n"})
           stripped == Strip(raw)
           parts == LineParts(raw)
           front == parts[1]
           back == parts[2]
           topic_str == IF Len(parts) >= 3 THEN parts[3] ELSE <<>>
       IN  IF stripped = <<>>
             THEN UNCHANGED <<current_section, cards, out>>
           ELSE IF StartsWith(stripped, <<"#">>)
             THEN /\ current_section' = SectionOf(stripped)
                  /\ UNCHANGED <<cards, out>>
           ELSE IF ~Contains(raw, SEPARATOR)
             THEN /\ out' = Append(out, Warning(line_no + 1, "missing separator"))
                  /\ UNCHANGED <<current_section, cards>>
           ELSE IF Len(parts) < 2
             THEN /\ out' = Append(out, Warning(line_no + 1, "not enough fields"))
                  /\ UNCHANGED <<current_section, cards>>
           ELSE IF front = <<>> \/ back = <<>>
             THEN /\ out' = Append(out, Warning(line_no + 1, "empty front/back"))
                  /\ UNCHANGED <<current_section, cards>>
           ELSE /\ cards' = Append(cards, [front |-> front, back |-> back,
                                           topics |-> CardTopics(current_section, topic_str)])
                /\ UNCHANGED <<current_section, out>>
    /\ UNCHANGED <<pc, file_exists, deck, final_newline, error>>
    /\ UNCHANGED <<chooseVars, quizVars>>

\* the end of the file: an empty list is an error
\* variant: a load that printed a warning fails as well
LoadEnd_FailsOnWarnings ==
    /\ pc = "load_loop"
    /\ line_no = Len(deck)
    /\ IF cards = <<>> \/ out # <<>>
         THEN error' = "ValueError" /\ pc' = "load_failed"
         ELSE pc' = "loaded" /\ UNCHANGED error
    /\ UNCHANGED <<file_exists, deck, final_newline, line_no, current_section, cards, out>>
    /\ UNCHANGED <<chooseVars, quizVars>>

LoadEnd ==
    /\ pc = "load_loop"
    /\ line_no = Len(deck)
    /\ IF cards = <<>>
         THEN error' = "ValueError" /\ pc' = "load_failed"
         ELSE pc' = "loaded" /\ UNCHANGED error
    /\ UNCHANGED <<file_exists, deck, final_newline, line_no, current_section, cards, out>>
    /\ UNCHANGED <<chooseVars, quizVars>>

LoadNext ==
    \/ LoadOpen
    \/ LoadLine
    \/ LoadEnd

LoadSpec == LoadInit /\ [][LoadNext]_vars

-----------------------------------------------------------------------------
(* Properties of the deck loader.  The deck format is restated here by       *)
(* positions in the line, independently of the loader's split and loops.    *)

\* the n-th smallest element of a set of numbers
NthSmallest(P, n) == CHOOSE k \in P : Cardinality({j \in P : j <= k}) = n

\* the entries of s at the positions in P, in increasing order of position
AtPositions(s, P) == [n \in 1..Cardinality(P) |-> s[NthSmallest(P, n)]]

IsBlankLine(l) == \A k \in 1..Len(l) : l[k] \in Whitespace

\* the first character that is not whitespace is "#"
IsHeaderLine(l) ==
    \E k \in 1..Len(l) : l[k] = "#" /\ \A j \in 1..(k - 1) : l[j] \in Whitespace

\* the text without its leading and trailing whitespace
Trimmed(t) ==
    AtPositions(t, {k \in 1..Len(t) :
                      /\ \E j \in 1..k : t[j] \notin Whitespace
                      /\ \E j \in k..Len(t) : t[j] \notin Whitespace})

\* the text of a header: what follows its leading run of "#", trimmed
HeaderText(l) ==
    LET first == CHOOSE k \in 1..Len(l) : l[k] = "#" /\ \A j \in 1..(k - 1) : l[j] \in Whitespace
        rest == {k \in first..Len(l) : \E j \in first..k : l[j] # "#"}
    IN  Trimmed(AtPositions(l, rest))

\* the positions at which the separators of line l start: in a run of colons
\* every third one, counted from the start of the run
SeparatorStarts(l) ==
    {k \in 1..(Len(l) - 2) :
        /\ l[k] = ":" /\ l[k + 1] = ":" /\ l[k + 2] = ":"
        /\ LET runStart == CHOOSE a \in 1..k :
                              /\ \A j \in a..k : l[j] = ":"
                              /\ (a = 1 \/ l[a - 1] # ":")
           IN  (k - runStart) % 3 = 0}

\* the text between the n-th and the (n+1)-th mark of width w (n from 0)
Between(l, starts, w, n) ==
    LET from == IF n = 0 THEN 1 ELSE NthSmallest(starts, n) + w
        to == IF n < Cardinality(starts) THEN NthSmallest(starts, n + 1) - 1 ELSE Len(l)
    IN  AtPositions(l, from..to)

\* field n of a card line, trimmed; absent fields are empty
Field(l, n) ==
    LET starts == SeparatorStarts(l)
    IN  IF n <= Cardinality(starts) THEN Trimmed(Between(l, starts, 3, n)) ELSE <<>>

IsValidCardLine(l) ==
    /\ ~IsBlankLine(l) /\ ~IsHeaderLine(l)
    /\ SeparatorStarts(l) # {}
    /\ Field(l, 0) # <<>> /\ Field(l, 1) # <<>>

IsMalformedLine(l) == ~IsBlankLine(l) /\ ~IsHeaderLine(l) /\ ~IsValidCardLine(l)

\* the numbers of the valid card lines, and of the malformed lines, read so far
ValidLinesRead == {k \in 1..line_no : IsValidCardLine(deck[k])}

MalformedLinesRead == {k \in 1..line_no : IsMalformedLine(deck[k])}

LoadFinished == pc = "loaded" \/ (pc = "load_failed" /\ file_exists)

\* C4: the cards are the valid card lines (separator present, non-empty trimmed
\* front and back), one card each in file order, and the warnings are the malformed
\* non-blank, non-header lines, one warning each (for the missing separator, or
\* else for the empty front or back), once the whole file has been read.
C4_OneCardPerValidLine ==
    /\ LoadFinished =>
          LET valid == ValidLinesRead
              malformed == MalformedLinesRead
          IN  /\ Len(cards) = Cardinality(valid)
              /\ \A n \in 1..Len(cards) :
                    LET l == deck[NthSmallest(valid, n)]
                    IN  cards[n].front = Field(l, 0) /\ cards[n].back = Field(l, 1)
              /\ Len(out) = Cardinality(malformed)
              /\ \A n \in 1..Len(out) :
                    LET k == NthSmallest(malformed, n)
                    IN  /\ out[n].line = k
                        /\ out[n].msg = IF SeparatorStarts(deck[k]) = {}
                                         THEN "missing separator"
                                         ELSE "empty front/back"
    /\ LoadFinished => line_no = Len(deck)

C4_Witness ==
    /\ pc = "loaded"
    /\ Len(cards) = 2 /\ Len(out) = 1
    /\ out[1].line = 2
    /\ cards[1].back # cards[2].back

\* the entries of field 2 of line l between commas, trimmed and lowercased, the
\* empty ones left out
FieldTopics(l) ==
    LET f == Field(l, 2)
        commas == {k \in 1..Len(f) : f[k] = ","}
        entry(n) == Lower(Trimmed(Between(f, commas, 1, n)))
        kept == {n \in 0..Cardinality(commas) : entry(n) # <<>>}
    IN  [n \in 1..Cardinality(kept) |-> entry(NthSmallest(kept, n))]

\* the topic the headers before line k give it: the lowercased text of the most
\* recent header, none when there is no header or its text is empty
SectionTopic(k) ==
    LET headers == {h \in 1..(k - 1) : IsHeaderLine(deck[h])}
        latest == CHOOSE h \in headers : \A g \in headers : g <= h
    IN  IF headers = {} \/ HeaderText(deck[latest]) = <<>> THEN <<>>
        ELSE <<Lower(HeaderText(deck[latest]))>>

\* the entries of s that occur at no earlier position, in order
FirstOccurrences(s) ==
    AtPositions(s, {k \in 1..Len(s) : \A j \in 1..(k - 1) : s[j] # s[k]})

\* C5: the topics of every card are the first occurrences, in order, of the
\* lowercased text of the most recent header before its line (if any, and not
\* empty) followed by the trimmed, lowercased, non-empty comma-separated entries
\* of its field 2; fields after field 2 are ignored, and a card before any header
\* and without field 2 has no topics.
C5_TopicsOfEachCard ==
    LoadFinished =>
        LET valid == ValidLinesRead
        IN  \A n \in 1..Len(cards) :
            LET k == NthSmallest(valid, n)
            IN  /\ cards[n].topics = FirstOccurrences(SectionTopic(k) \o FieldTopics(deck[k]))
                /\ ((\A h \in 1..(k - 1) : ~IsHeaderLine(deck[h]))
                       /\ Cardinality(SeparatorStarts(deck[k])) = 1)
                     => cards[n].topics = <<>>

\* a card under a second header, whose field 2 repeats the header's topic in
\* another case and adds a new one
C5_Witness ==
    /\ pc = "loaded"
    /\ Len(cards) = 1
    /\ Cardinality({h \in 1..Len(deck) : IsHeaderLine(deck[h])}) = 2
    /\ cards[1].topics = <<<<"a">>, <<"b">>>>
    /\ Len(FieldTopics(deck[3])) = 3

\* C13: load_cards raises the empty-deck error exactly when the file exists and
\* none of its lines is a valid card line; it raises it only after the last line
\* has been read, so blank, header and malformed lines never end a load, and a
\* file with at least one valid card line is loaded whatever else it contains.
C13_EmptyDeckIffNoValidLine ==
    /\ (error = "ValueError") <=> (pc = "load_failed" /\ file_exists)
    /\ (pc = "load_failed" /\ ~file_exists) => error = "FileNotFoundError"
    /\ LoadFinished =>
          LET someValid == \E k \in 1..Len(deck) : IsValidCardLine(deck[k])
          IN  /\ line_no = Len(deck)
              /\ (error = "ValueError") <=> ~someValid
              /\ (pc = "loaded") <=> someValid
              /\ pc = "loaded" => (error = NoError /\ cards # <<>>)

C13_Witness ==
    /\ pc = "loaded"
    /\ Len(deck) = 3
    /\ IsMalformedLine(deck[1])
    /\ IsValidCardLine(deck[2])
    /\ IsHeaderLine(deck[3])


\* C19: a header made of "#" characters only sets the section to the empty
\* text, which is no section: every card whose most recent header has empty
\* text gets the topics of its own field 2 alone, so the topic of an earlier
\* header does not carry over, and the next header with text applies again.
C19_EmptyHeaderClearsSection ==
    /\ (pc = "load_loop" /\ line_no >= 1 /\ IsHeaderLine(deck[line_no])
           /\ HeaderText(deck[line_no]) = <<>>) => current_section = <<>>
    /\ LoadFinished =>
          LET valid == ValidLinesRead
          IN  \A n \in 1..Len(cards) :
              LET k == NthSmallest(valid, n)
                  headers == {h \in 1..(k - 1) : IsHeaderLine(deck[h])}
                  latest == CHOOSE h \in headers : \A g \in headers : g <= h
              IN  headers # {} =>
                    IF HeaderText(deck[latest]) = <<>>
                      THEN cards[n].topics = FirstOccurrences(FieldTopics(deck[k]))
                      ELSE cards[n].topics # <<>>
                             /\ cards[n].topics[1] = Lower(HeaderText(deck[latest]))

C19_Witness ==
    /\ pc = "loaded"
    /\ Len(deck) = 3
    /\ IsHeaderLine(deck[1]) /\ HeaderText(deck[1]) # <<>>
    /\ IsHeaderLine(deck[2]) /\ HeaderText(deck[2]) = <<>>
    /\ Len(cards) = 1 /\ cards[1].topics = <<>>


-----------------------------------------------------------------------------
(* The topic filter: choose_topic_subset. *)

\* decks as load_cards builds them: topics lowercased, trimmed, without repeats
TopicLists ==
    {<<>>, <<<<"a">>>>, <<<<"a", "b">>>>, <<<<"b">>, <<"a">>>>}

TopicCard(k, topics) == [front |-> [j \in 1..k |-> "a"], back |-> <<"b">>, topics |-> topics]

FilterDecks ==
    UNION {{[k \in 1..n |-> TopicCard(k, ts[k])] : ts \in [1..n -> TopicLists]} :
             n \in 1..MaxFilterCards}

\* the lines typed at the topic prompt
RequestInputs ==
    {<<>>, <<" ">>, <<"a">>, <<" ", "A", " ", ",", "c">>, <<"b">>, <<",">>, <<"c">>,
     <<"a", "b", ",", ",", "B", " ">>}

\* the character codes that order strings
CharCode(c) ==
    CASE c = " " -> 32
      [] c = "#" -> 35
      [] c = "," -> 44
      [] c = ":" -> 58
      [] c = "A" -> 65
      [] c = "B" -> 66
      [] c = "a" -> 97
      [] c = "b" -> 98
      [] c = "c" -> 99
      [] OTHER -> 0

\* s <= t in the order of Python strings
RECURSIVE StrLeq(_, _)
StrLeq(s, t) ==
    IF s = <<>> THEN TRUE
    ELSE IF t = <<>> THEN FALSE
    ELSE IF Head(s) = Head(t) THEN StrLeq(Tail(s), Tail(t))
    ELSE CharCode(Head(s)) < CharCode(Head(t))

\* sorted(topic_set)
RECURSIVE Sorted(_)
Sorted(S) ==
    IF S = {} THEN <<>>
    ELSE LET least == CHOOSE x \in S : \A y \in S : StrLeq(x, y)
         IN  <<least>> \o Sorted(S \ {least})

\* the set of all topics of the cards
TopicSet(cs) == UNION {SeqRange(cs[k].topics) : k \in 1..Len(cs)}

\* [t.strip().lower() for t in raw.split(",") if t.strip()]
SelectedTopics(raw) ==
    LET kept == SelectSeq(Split(raw, <<",">>), NonBlank)
    IN  [k \in 1..Len(kept) |-> StripLower(kept[k])]

\* FilterCards keeping every card that has a topic at all
RECURSIVE FilterCards_AnyTopic(_, _)
FilterCards_AnyTopic(cs, selected_set) ==
    IF cs = <<>> THEN <<>>
    ELSE LET c == Head(cs)
             rest == FilterCards_AnyTopic(Tail(cs), selected_set)
         IN  IF c.topics # <<>> THEN <<c>> \o rest ELSE rest

\* the cards with a topic among the selected ones
RECURSIVE FilterCards(_, _)
FilterCards(cs, selected_set) ==
    IF cs = <<>> THEN <<>>
    ELSE LET c == Head(cs)
             rest == FilterCards(Tail(cs), selected_set)
         IN  IF c.topics # <<>> /\ \E k \in 1..Len(c.topics) : c.topics[k] \in selected_set
             THEN <<c>> \o rest
             ELSE rest

Notice(msg) == [msg |-> msg]

\* ChooseOutcome returning the filtered list even when it is empty
ChooseOutcome_NoFallback(cs, typed) ==
    LET raw == Strip(typed)
        selected_set == SeqRange(SelectedTopics(raw))
        filtered == FilterCards(cs, selected_set)
    IN  IF raw = <<>>
        THEN [chosen |-> cs, msgs |-> <<Notice("Using all cards.")>>]
        ELSE [chosen |-> filtered,
              msgs |-> <<[msg |-> "Selected topics", topics |-> selected_set],
                         [msg |-> "Using cards matching selected topics.",
                          n |-> Len(filtered)]>>]

\* what choose_topic_subset returns and prints once `typed` is read at the prompt
ChooseOutcome(cs, typed) ==
    LET raw == Strip(typed)
        selected_set == SeqRange(SelectedTopics(raw))
        filtered == FilterCards(cs, selected_set)
    IN  IF raw = <<>>
        THEN [chosen |-> cs, msgs |-> <<Notice("Using all cards.")>>]
        ELSE IF filtered = <<>>
        THEN [chosen |-> cs,
              msgs |-> <<[msg |-> "Selected topics", topics |-> selected_set],
                         Notice("No cards matched those topics. Using all cards instead.")>>]
        ELSE [chosen |-> filtered,
              msgs |-> <<[msg |-> "Selected topics", topics |-> selected_set],
                         [msg |-> "Using cards matching selected topics.",
                          n |-> Len(filtered)]>>]

ChooseInit ==
    /\ pc = "choose_topic_subset"
    /\ cards \in FilterDecks
    /\ request = None /\ chosen = None /\ out = <<>>
    /\ file_exists = TRUE /\ deck = <<>> /\ final_newline = FALSE /\ line_no = 0
    /\ current_section = None /\ error = NoError
    /\ indices = <<>> /\ i = 0 /\ idx = 0 /\ correct = 0 /\ total_seen = 0
    /\ quitting = FALSE /\ last_msg = "" /\ shown = <<>> /\ grades = <<>>
    /\ report = None

\* ChooseCollect going on to the prompt even when the deck has no topics
ChooseCollect_AlwaysPrompts ==
    /\ pc = "choose_topic_subset"
    /\ out' = Append(out, [msg |-> "Available topics", topics |-> Sorted(TopicSet(cards))])
    /\ pc' = "choose_prompt"
    /\ UNCHANGED <<cards, request, chosen>>
    /\ UNCHANGED <<loadVars, quizVars>>

\* the topics of the deck are collected: without any, all cards are returned
\* at once; otherwise the topics are listed
ChooseCollect ==
    /\ pc = "choose_topic_subset"
    /\ IF TopicSet(cards) = {}
         THEN /\ out' = Append(out, Notice("No topics found in deck; using all cards."))
              /\ chosen' = cards
              /\ pc' = "chosen"
         ELSE /\ out' = Append(out, [msg |-> "Available topics",
                                     topics |-> Sorted(TopicSet(cards))])
              /\ pc' = "choose_prompt"
              /\ UNCHANGED chosen
    /\ UNCHANGED <<cards, request>>
    /\ UNCHANGED <<loadVars, quizVars>>

\* the topic prompt is answered and the cards are filtered
ChooseInput ==
    /\ pc = "choose_prompt"
    /\ \E typed \in RequestInputs :
          /\ request' = typed
          /\ chosen' = ChooseOutcome(cards, typed).chosen
          /\ out' = out \o ChooseOutcome(cards, typed).msgs
    /\ pc' = "chosen"
    /\ UNCHANGED cards
    /\ UNCHANGED <<loadVars, quizVars>>

ChooseNext ==
    \/ ChooseCollect
    \/ ChooseInput

ChooseSpec == ChooseInit /\ [][ChooseNext]_vars

-----------------------------------------------------------------------------
(* Properties of the topic filter. *)

\* the topics a typed request asks for: its entries between commas, trimmed and
\* lowercased, the empty ones left out
RequestedTopics(typed) ==
    LET r == Trimmed(typed)
        commas == {k \in 1..Len(r) : r[k] = ","}
    IN  {Lower(Trimmed(Between(r, commas, 1, n))) : n \in 0..Cardinality(commas)} \ {<<>>}

\* the positions of the cards that have a topic among those requested
MatchingCards ==
    {k \in 1..Len(cards) :
        \E t \in 1..Len(cards[k].topics) : cards[k].topics[t] \in RequestedTopics(request)}

\* the prompt was answered with a request that is not empty
Requested == request # None /\ Trimmed(request) # <<>>

NoMatchNotice == Notice("No cards matched those topics. Using all cards instead.")

\* C6: the list returned for a (non-empty) deck is never empty, and when a request
\* matches no card the whole list is returned unchanged with a no-match notice.
C6_NeverEmptyAndNoMatchNoticed ==
    pc = "chosen" =>
        /\ chosen # <<>>
        /\ (Requested /\ MatchingCards = {})
              => (chosen = cards /\ \E k \in 1..Len(out) : out[k] = NoMatchNotice)

C6_Witness ==
    /\ pc = "chosen"
    /\ request = <<"c">>
    /\ TopicSet(cards) = {<<"a">>, <<"b">>}
    /\ chosen = cards

\* C7: the returned list is the deck itself, same cards in the same order, when
\* the request is empty after trimming, and when no card has a topic, in which
\* case no request is read at all.
C7_IdentityWithoutRequestOrTopics ==
    /\ TopicSet(cards) = {} => (request = None /\ pc \in {"choose_topic_subset", "chosen"})
    /\ pc = "chosen" =>
          /\ TopicSet(cards) = {} => chosen = cards
          /\ (request # None /\ Trimmed(request) = <<>>) => chosen = cards

C7_Witness ==
    /\ pc = "chosen"
    /\ request = <<" ">>
    /\ Len(cards) >= 2
    /\ TopicSet(cards) # {}

\* C8: when the request is not empty and some card matches it, the returned list
\* is exactly the cards with a topic among the requested ones, in deck order;
\* cards without topics are never in it.
C8_ExactlyTheMatchingCards ==
    (pc = "chosen" /\ Requested /\ MatchingCards # {}) =>
        /\ chosen = AtPositions(cards, MatchingCards)
        /\ \A k \in 1..Len(chosen) : chosen[k].topics # <<>>

C8_Witness ==
    /\ pc = "chosen"
    /\ request = <<" ", "A", " ", ",", "c">>
    /\ Len(cards) = 3
    /\ Len(chosen) = 2
    /\ chosen[1] = cards[1] /\ chosen[2] = cards[3]
    /\ cards[2].topics # <<>>

-----------------------------------------------------------------------------
(* The session engine: run_quiz. *)

\* the decks a session is run on: load_cards and choose_topic_subset never
\* hand run_quiz an empty list
SampleCard(k) == [front |-> [j \in 1..k |-> "a"], back |-> <<"b">>, topics |-> <<>>]

QuizDecks == {[k \in 1..n |-> SampleCard(k)] : n \in 1..MaxCards}

\* the lines typed at the answer prompt and at the grade prompt
AnswerInputs == {<<>>, <<" ">>, <<"q">>, <<"s">>, <<"g">>, <<" ", "Q">>, <<"a", " ", "b">>}

GradeInputs ==
    {<<>>, <<" ">>, <<"g">>, <<" ", "G", " ">>, <<"s">>, <<"S", " ">>, <<"q">>,
     <<" ", "Q">>, <<"h">>, <<"H">>, <<"x">>, <<"g", "s">>, <<"g", " ", "g">>}

\* random.shuffle(list(range(n))): any permutation of 0..n-1
Shuffles(n) ==
    {p \in [1..n -> 0..(n - 1)] : \A a, b \in 1..n : p[a] = p[b] => a = b}

\* input(...).strip().lower()
ReadCmd(raw) == Lower(Strip(raw))

QuizInit ==
    /\ pc = "run_quiz"
    /\ cards \in QuizDecks
    /\ file_exists = TRUE /\ deck = <<>> /\ final_newline = FALSE /\ line_no = 0
    /\ current_section = None /\ out = <<>> /\ error = NoError
    /\ request = None /\ chosen = None
    /\ indices = <<>> /\ i = 0 /\ idx = 0 /\ correct = 0 /\ total_seen = 0
    /\ quitting = FALSE /\ last_msg = "" /\ shown = <<>> /\ grades = <<>>
    /\ report = None

QuizStart ==
    /\ pc = "run_quiz"
    /\ indices' \in Shuffles(Len(cards))
    /\ correct' = 0
    /\ total_seen' = 0
    /\ quitting' = FALSE
    /\ last_msg' = "help"
    /\ i' = 0
    /\ pc' = "loop"
    /\ UNCHANGED <<idx, shown, grades, report, cards, out>>
    /\ UNCHANGED <<loadVars, chooseVars>>

\* QuizPresent with the loop test forgetting the quit flag
QuizPresent_IgnoresQuit ==
    /\ pc = "loop"
    /\ i < Len(indices)
    /\ idx' = indices[i + 1]
    /\ shown' = Append(shown, [pos |-> i, card |-> indices[i + 1]])
    /\ last_msg' = "question"
    /\ pc' = "answer"
    /\ UNCHANGED <<indices, i, correct, total_seen, quitting, grades, report, cards, out>>
    /\ UNCHANGED <<loadVars, chooseVars>>

\* the loop test succeeds: take the card at the cursor and print its question
QuizPresent ==
    /\ pc = "loop"
    /\ i < Len(indices) /\ ~quitting
    /\ idx' = indices[i + 1]
    /\ shown' = Append(shown, [pos |-> i, card |-> indices[i + 1]])
    /\ last_msg' = "question"
    /\ pc' = "answer"
    /\ UNCHANGED <<indices, i, correct, total_seen, quitting, grades, report, cards, out>>
    /\ UNCHANGED <<loadVars, chooseVars>>

\* variant: "q" typed as the answer ends the session
QuizAnswer_ObeysQuit ==
    /\ pc = "answer"
    /\ \E user_answer \in AnswerInputs :
          IF ReadCmd(user_answer) = <<"q">>
            THEN quitting' = TRUE /\ pc' = "loop" /\ UNCHANGED last_msg
            ELSE /\ last_msg' = IF Strip(user_answer) # <<>>
                                  THEN "your answer, correct answer"
                                  ELSE "correct answer"
                 /\ pc' = "grade" /\ UNCHANGED quitting
    /\ UNCHANGED <<indices, i, idx, correct, total_seen, shown, grades, report,
                   cards, out>>
    /\ UNCHANGED <<loadVars, chooseVars>>

\* the answer prompt and print_answer
QuizAnswer ==
    /\ pc = "answer"
    /\ \E user_answer \in AnswerInputs :
          last_msg' = IF Strip(user_answer) # <<>> THEN "your answer, correct answer"
                      ELSE "correct answer"
    /\ pc' = "grade"
    /\ UNCHANGED <<indices, i, idx, correct, total_seen, quitting, shown, grades, report,
                   cards, out>>
    /\ UNCHANGED <<loadVars, chooseVars>>

\* GradeEnter counting the card as correct
GradeEnter_AsGood ==
    /\ pc = "grade"
    /\ \E raw \in GradeInputs : ReadCmd(raw) = <<>>
    /\ grades' = Append(grades, [pos |-> i, card |-> idx, cmd |-> ""])
    /\ correct' = correct + 1
    /\ total_seen' = total_seen + 1
    /\ i' = i + 1
    /\ pc' = "loop"
    /\ UNCHANGED <<indices, idx, quitting, last_msg, shown, report, cards, out>>
    /\ UNCHANGED <<loadVars, chooseVars>>

GradeEnter ==
    /\ pc = "grade"
    /\ \E raw \in GradeInputs : ReadCmd(raw) = <<>>
    /\ grades' = Append(grades, [pos |-> i, card |-> idx, cmd |-> ""])
    /\ total_seen' = total_seen + 1
    /\ i' = i + 1
    /\ pc' = "loop"
    /\ UNCHANGED <<indices, idx, correct, quitting, last_msg, shown, report, cards, out>>
    /\ UNCHANGED <<loadVars, chooseVars>>

\* "g": the first of its two counter updates
GradeGood ==
    /\ pc = "grade"
    /\ \E raw \in GradeInputs : ReadCmd(raw) = <<"g">>
    /\ grades' = Append(grades, [pos |-> i, card |-> idx, cmd |-> "g"])
    /\ correct' = correct + 1
    /\ pc' = "g_counted"
    /\ UNCHANGED <<indices, i, idx, total_seen, quitting, last_msg, shown, report, cards, out>>
    /\ UNCHANGED <<loadVars, chooseVars>>

\* GradeGoodSeen without the update of total_seen
GradeGoodSeen_NoCount ==
    /\ pc = "g_counted"
    /\ i' = i + 1
    /\ pc' = "loop"
    /\ UNCHANGED <<indices, idx, correct, total_seen, quitting, last_msg, shown, grades,
                   report, cards, out>>
    /\ UNCHANGED <<loadVars, chooseVars>>

\* "g": the second counter update, the break and the cursor's advance
GradeGoodSeen ==
    /\ pc = "g_counted"
    /\ total_seen' = total_seen + 1
    /\ i' = i + 1
    /\ pc' = "loop"
    /\ UNCHANGED <<indices, idx, correct, quitting, last_msg, shown, grades, report,
                   cards, out>>
    /\ UNCHANGED <<loadVars, chooseVars>>

\* GradeStruggled without the append to the queue
GradeStruggled_NoRequeue ==
    /\ pc = "grade"
    /\ \E raw \in GradeInputs : ReadCmd(raw) = <<"s">>
    /\ Len(indices) - Len(cards) < MaxStruggles
    /\ grades' = Append(grades, [pos |-> i, card |-> idx, cmd |-> "s"])
    /\ total_seen' = total_seen + 1
    /\ i' = i + 1
    /\ pc' = "loop"
    /\ UNCHANGED <<indices, idx, correct, quitting, last_msg, shown, report, cards, out>>
    /\ UNCHANGED <<loadVars, chooseVars>>

\* variant: the struggled card is put right behind the cursor
GradeStruggled_RequeuesNext ==
    /\ pc = "grade"
    /\ \E raw \in GradeInputs : ReadCmd(raw) = <<"s">>
    /\ Len(indices) - Len(cards) < MaxStruggles
    /\ grades' = Append(grades, [pos |-> i, card |-> idx, cmd |-> "s"])
    /\ total_seen' = total_seen + 1
    /\ indices' = Take(indices, i + 1) \o <<idx>> \o Drop(indices, i + 1)
    /\ i' = i + 1
    /\ pc' = "loop"
    /\ UNCHANGED <<idx, correct, quitting, last_msg, shown, report, cards, out>>
    /\ UNCHANGED <<loadVars, chooseVars>>

\* variant: the cursor is appended in place of the card's index
GradeStruggled_AppendsCursor ==
    /\ pc = "grade"
    /\ \E raw \in GradeInputs : ReadCmd(raw) = <<"s">>
    /\ Len(indices) - Len(cards) < MaxStruggles
    /\ grades' = Append(grades, [pos |-> i, card |-> idx, cmd |-> "s"])
    /\ total_seen' = total_seen + 1
    /\ indices' = Append(indices, i)
    /\ i' = i + 1
    /\ pc' = "loop"
    /\ UNCHANGED <<idx, correct, quitting, last_msg, shown, report, cards, out>>
    /\ UNCHANGED <<loadVars, chooseVars>>

\* variant: the struggled card is appended twice
GradeStruggled_RequeuesTwice ==
    /\ pc = "grade"
    /\ \E raw \in GradeInputs : ReadCmd(raw) = <<"s">>
    /\ Len(indices) - Len(cards) < MaxStruggles
    /\ grades' = Append(grades, [pos |-> i, card |-> idx, cmd |-> "s"])
    /\ total_seen' = total_seen + 1
    /\ indices' = indices \o <<idx, idx>>
    /\ i' = i + 1
    /\ pc' = "loop"
    /\ UNCHANGED <<idx, correct, quitting, last_msg, shown, report, cards, out>>
    /\ UNCHANGED <<loadVars, chooseVars>>

\* variant: the struggled card itself is appended to the card list
GradeStruggled_CopiesCard ==
    /\ pc = "grade"
    /\ \E raw \in GradeInputs : ReadCmd(raw) = <<"s">>
    /\ Len(indices) - Len(cards) < MaxStruggles
    /\ grades' = Append(grades, [pos |-> i, card |-> idx, cmd |-> "s"])
    /\ total_seen' = total_seen + 1
    /\ cards' = Append(cards, cards[idx + 1])
    /\ indices' = Append(indices, Len(cards))
    /\ i' = i + 1
    /\ pc' = "loop"
    /\ UNCHANGED <<idx, correct, quitting, last_msg, shown, report, out>>
    /\ UNCHANGED <<loadVars, chooseVars>>

GradeStruggled ==
    /\ pc = "grade"
    /\ \E raw \in GradeInputs : ReadCmd(raw) = <<"s">>
    /\ Len(indices) - Len(cards) < MaxStruggles
    /\ grades' = Append(grades, [pos |-> i, card |-> idx, cmd |-> "s"])
    /\ total_seen' = total_seen + 1
    /\ indices' = Append(indices, idx)
    /\ i' = i + 1
    /\ pc' = "loop"
    /\ UNCHANGED <<idx, correct, quitting, last_msg, shown, report, cards, out>>
    /\ UNCHANGED <<loadVars, chooseVars>>

\* GradeQuit counting the abandoned card as seen
GradeQuit_Counted ==
    /\ pc = "grade"
    /\ \E raw \in GradeInputs : ReadCmd(raw) = <<"q">>
    /\ grades' = Append(grades, [pos |-> i, card |-> idx, cmd |-> "q"])
    /\ quitting' = TRUE
    /\ total_seen' = total_seen + 1
    /\ i' = i + 1
    /\ pc' = "loop"
    /\ UNCHANGED <<indices, idx, correct, last_msg, shown, report, cards, out>>
    /\ UNCHANGED <<loadVars, chooseVars>>

GradeQuit ==
    /\ pc = "grade"
    /\ \E raw \in GradeInputs : ReadCmd(raw) = <<"q">>
    /\ grades' = Append(grades, [pos |-> i, card |-> idx, cmd |-> "q"])
    /\ quitting' = TRUE
    /\ i' = i + 1
    /\ pc' = "loop"
    /\ UNCHANGED <<indices, idx, correct, total_seen, last_msg, shown, report, cards, out>>
    /\ UNCHANGED <<loadVars, chooseVars>>

\* variant: "h" is counted like a grade
GradeHelp_Counts ==
    /\ pc = "grade"
    /\ \E raw \in GradeInputs : ReadCmd(raw) = <<"h">>
    /\ last_msg' = "help"
    /\ total_seen' = total_seen + 1
    /\ UNCHANGED <<pc, indices, i, idx, correct, quitting, shown, grades,
                   report, cards, out>>
    /\ UNCHANGED <<loadVars, chooseVars>>

GradeHelp ==
    /\ pc = "grade"
    /\ \E raw \in GradeInputs : ReadCmd(raw) = <<"h">>
    /\ last_msg' = "help"
    /\ UNCHANGED <<pc, indices, i, idx, correct, total_seen, quitting, shown, grades,
                   report, cards, out>>
    /\ UNCHANGED <<loadVars, chooseVars>>

GradeUnknown ==
    /\ pc = "grade"
    /\ \E raw \in GradeInputs :
          ReadCmd(raw) \notin {<<>>, <<"g">>, <<"s">>, <<"q">>, <<"h">>}
    /\ last_msg' = "unknown command"
    /\ UNCHANGED <<pc, indices, i, idx, correct, total_seen, quitting, shown, grades,
                   report, cards, out>>
    /\ UNCHANGED <<loadVars, chooseVars>>

\* the loop test fails: print the session summary
QuizSummary ==
    /\ pc = "loop"
    /\ ~(i < Len(indices) /\ ~quitting)
    /\ report' = [seen |-> total_seen, marked |-> correct,
                  accuracy |-> IF total_seen # 0 THEN <<correct, total_seen>> ELSE None]
    /\ last_msg' = "summary"
    /\ pc' = "done"
    /\ UNCHANGED <<indices, i, idx, correct, total_seen, quitting, shown, grades, cards, out>>
    /\ UNCHANGED <<loadVars, chooseVars>>

GradeTerminal == GradeEnter \/ GradeGood \/ GradeStruggled \/ GradeQuit

Next ==
    \/ QuizStart
    \/ QuizPresent
    \/ QuizAnswer
    \/ GradeEnter
    \/ GradeGood
    \/ GradeGoodSeen
    \/ GradeStruggled
    \/ GradeQuit
    \/ GradeHelp
    \/ GradeUnknown
    \/ QuizSummary

Spec == QuizInit /\ [][Next]_vars

\* a step that is not a reprompt: the program's own steps, an answer typed at
\* the answer prompt, a terminal command typed at the grade prompt
Progress ==
    \/ QuizStart
    \/ QuizPresent
    \/ QuizAnswer
    \/ GradeTerminal
    \/ GradeGoodSeen
    \/ QuizSummary

\* input() returns once the user has typed a line: every prompt is answered, and
\* every grade prompt eventually with a terminal command
FairSpec == Spec /\ WF_vars(Progress)

-----------------------------------------------------------------------------
(* Properties of the session engine. *)

MaxQueueLen == MaxCards + MaxStruggles

\* the number of terminal commands read so far that are cmd
CountCmd(cmd) == Cardinality({k \in 1..Len(grades) : grades[k].cmd = cmd})

\* the card graded "s" at cursor g.pos has been presented at a later cursor
PresentedAgain(g) == \E k \in 1..Len(shown) : shown[k].card = g.card /\ shown[k].pos > g.pos

\* no command is half processed: the engine is at a prompt, at the loop test or done
BetweenCommands == pc # "g_counted"

\* C1: once a card is graded "s" at queue position p, the same card index is
\* presented at a later position before the session ends, unless "q" is given
\* first; every prompt is eventually answered with a terminal command (FairSpec).
C1_StruggledCardComesBack ==
    /\ \A p \in 0..(MaxQueueLen - 1) :
          (\E k \in 1..Len(grades) : grades[k].cmd = "s" /\ grades[k].pos = p)
          ~> (quitting \/ \E k \in 1..Len(grades) :
                              /\ grades[k].cmd = "s" /\ grades[k].pos = p
                              /\ PresentedAgain(grades[k]))
    /\ [](pc = "done" /\ ~quitting
            => \A k \in 1..Len(grades) : grades[k].cmd = "s" => PresentedAgain(grades[k]))

C1_Witness ==
    /\ ~quitting
    /\ \E k \in 1..Len(grades) : grades[k].cmd = "s" /\ PresentedAgain(grades[k])

\* C2 as stated: between commands, total_seen is the number of terminal commands
\* (empty, g, s, q) the grade prompt has received.
C2_SeenCountsEveryTerminalCommand ==
    BetweenCommands => total_seen = Len(grades)

\* C2 amended: between commands, total_seen is the number of terminal commands
\* other than "q" (empty, g, s) the grade prompt has received.
C2_SeenCountsTerminalCommandsButQuit ==
    BetweenCommands => total_seen = CountCmd("") + CountCmd("g") + CountCmd("s")

C2_Witness ==
    /\ pc = "done"
    /\ \E k \in 1..Len(grades) : grades[k].cmd = "q"
    /\ \E k \in 1..Len(grades) : grades[k].cmd = "s"
    /\ \E k \in 1..Len(grades) : grades[k].cmd = "g"
    /\ total_seen = Len(grades) - 1

\* C3 as stated: correct <= total_seen in every reachable state, the state between
\* the two counter updates of a "g" command included.
C3_CorrectNeverAboveSeen == correct <= total_seen

\* C3 amended: correct <= total_seen whenever no command is half processed; between
\* the two counter updates of a "g" command correct <= total_seen + 1.
C3_CorrectAtMostSeenBetweenCommands ==
    /\ BetweenCommands => correct <= total_seen
    /\ pc = "g_counted" => correct <= total_seen + 1

C3_Witness == BetweenCommands /\ correct = total_seen /\ correct >= 2

\* C9: in a session run to queue exhaustion (no "q"), card k is presented
\* 1 + (number of "s" grades of k) times, every queue position is presented exactly
\* once, total_seen = N + (number of "s" grades) and correct = (number of "g"
\* grades); grades s, g on one card give total_seen = 2, correct = 1, two showings.
C9_ExhaustedSessionCounts ==
    (pc = "done" /\ ~quitting) =>
        /\ \A c \in 0..(Len(cards) - 1) :
              Cardinality({k \in 1..Len(shown) : shown[k].card = c})
                = 1 + Cardinality({k \in 1..Len(grades) :
                                      grades[k].cmd = "s" /\ grades[k].card = c})
        /\ \A p \in 0..(Len(indices) - 1) :
              /\ Cardinality({k \in 1..Len(shown) : shown[k].pos = p}) = 1
              /\ \A k \in 1..Len(shown) : shown[k].pos = p => shown[k].card = indices[p + 1]
        /\ \A k \in 1..Len(shown) : shown[k].pos \in 0..(Len(indices) - 1)
        /\ total_seen = Len(cards) + CountCmd("s")
        /\ correct = CountCmd("g")
        /\ (Len(cards) = 1 /\ Len(grades) = 2 /\ grades[1].cmd = "s" /\ grades[2].cmd = "g")
              => (total_seen = 2 /\ correct = 1 /\ Len(shown) = 2)

C9_Witness ==
    /\ pc = "done" /\ ~quitting
    /\ Len(cards) = 1 /\ Len(grades) = 2 /\ grades[1].cmd = "s" /\ grades[2].cmd = "g"

\* C10: "q" leaves total_seen and correct unchanged and appends nothing to the
\* queue; once it is given no further card is presented, whatever remains in the
\* queue; the summary prints the accuracy line iff total_seen > 0, so "q" at the
\* first grade prompt ends with total_seen = 0, correct = 0 and no accuracy line.
C10_QuitEndsSession ==
    /\ [][(pc = "grade" /\ quitting')
            => (total_seen' = total_seen /\ correct' = correct /\ indices' = indices)]_vars
    /\ [][quitting => (shown' = shown /\ grades' = grades /\ total_seen' = total_seen
                        /\ correct' = correct /\ indices' = indices
                        /\ pc' \in {"loop", "done"})]_vars
    /\ [](pc = "done" => ((report.accuracy # None) <=> (total_seen > 0)))
    /\ [](pc = "done" => (report.seen = total_seen /\ report.marked = correct))
    /\ []((pc = "done" /\ Len(grades) = 1 /\ grades[1].cmd = "q")
            => (total_seen = 0 /\ correct = 0 /\ report.accuracy = None))

C10_Witness ==
    /\ pc = "done" /\ quitting
    /\ i < Len(indices)
    /\ total_seen > 0
    /\ report.accuracy # None

\* C11: at the grade prompt, "h" and every token other than empty, g, s, q, h
\* only print a message: total_seen, correct, the queue, the cursor and the
\* current card are untouched, no card is presented, no grade is taken, and
\* the session stays at the grade prompt of the same card.
C11_RepromptLeavesSessionUnchanged ==
    [][(pc = "grade" /\ grades' = grades)
         => /\ pc' = "grade"
            /\ last_msg' \in {"help", "unknown command"}
            /\ total_seen' = total_seen
            /\ correct' = correct
            /\ indices' = indices
            /\ i' = i
            /\ idx' = idx
            /\ quitting' = quitting
            /\ shown' = shown
            /\ cards' = cards]_vars

C11_Witness ==
    /\ pc = "grade"
    /\ last_msg = "unknown command"
    /\ total_seen >= 1
    /\ Len(indices) > Len(cards)
    /\ i = Len(grades)

\* the terminal commands read so far, in order
Commands == [k \in 1..Len(grades) |-> grades[k].cmd]

\* the queue that the permutation perm and the terminal commands cmds determine:
\* the k-th command grades queue position k, and "s" appends the entry there
RECURSIVE QueueAfter(_, _)
QueueAfter(perm, cmds) ==
    IF cmds = <<>> THEN perm
    ELSE LET q == QueueAfter(perm, Take(cmds, Len(cmds) - 1))
         IN  IF cmds[Len(cmds)] = "s" THEN Append(q, q[Len(cmds)]) ELSE q

\* C14: the k-th presentation shows the k-th entry of the queue determined by
\* the initial permutation and the command sequence alone (so equal permutations
\* and commands give equal card sequences); a card is presented again only after
\* all N entries of the permutation have been presented; and the presentations
\* after the first N show the cards graded "s", in the order of those grades.
C14_RepeatsAreFifo ==
    pc # "run_quiz" =>
        LET N == Len(cards)
            expected == QueueAfter(Take(indices, N), Commands)
            struggles == {g \in 1..Len(grades) : grades[g].cmd = "s"}
        IN  /\ \A k \in 1..Len(shown) :
                  /\ shown[k].pos = k - 1
                  /\ k <= Len(expected) /\ shown[k].card = expected[k]
                  /\ (\E j \in 1..(k - 1) : shown[j].card = shown[k].card) => k > N
            /\ \A k \in 1..(Len(shown) - N) :
                  /\ k <= Cardinality(struggles)
                  /\ shown[N + k].card = grades[NthSmallest(struggles, k)].card

C14_Witness ==
    /\ Len(cards) = 2
    /\ Len(shown) = 4
    /\ grades[1].cmd = "s" /\ grades[2].cmd = "s"
    /\ shown[3].card = shown[1].card
    /\ shown[4].card = shown[2].card

\* C15: once built, the queue is a permutation of 0..N-1 followed by the cards
\* graded "s" so far, in the order of those grades: its length is N plus the
\* number of "s" grades and every entry is a card index; a step only ever
\* appends to it; the cursor never decreases, grows by one at a time, equals the
\* number of terminal commands between commands, and never exceeds the length.
C15_QueueIsPermutationPlusStruggles ==
    /\ [](pc # "run_quiz" =>
            LET N == Len(cards)
                struggles == {g \in 1..Len(grades) : grades[g].cmd = "s"}
            IN  /\ Take(indices, N) \in Shuffles(N)
                /\ Len(indices) = N + Cardinality(struggles)
                /\ \A k \in 1..Len(indices) : indices[k] \in 0..(N - 1)
                /\ \A n \in 1..Cardinality(struggles) :
                      indices[N + n] = grades[NthSmallest(struggles, n)].card
                /\ i <= Len(indices)
                /\ BetweenCommands => i = Len(grades))
    /\ [][pc # "run_quiz" =>
            /\ Len(indices') >= Len(indices)
            /\ Take(indices', Len(indices)) = indices
            /\ i' \in {i, i + 1}
            /\ (i' = i + 1) <=> \/ (pc = "grade" /\ pc' = "loop")
                                \/ pc = "g_counted"]_vars

C15_Witness ==
    /\ pc = "loop"
    /\ Len(cards) = 2
    /\ Len(indices) = 4
    /\ i = 4
    /\ indices[3] # indices[4]
    /\ CountCmd("g") >= 1

\* C16: when every prompt is answered, the grade prompt in the end with a
\* terminal command, and "s" is given finitely often, the session reaches the
\* summary; it gets there after "q" or with the cursor at the end of the queue,
\* and without "q" after exactly N presentations plus one for each "s".
C16_SessionTerminates ==
    /\ <>(pc = "done")
    /\ [](pc = "done" => (quitting \/ i = Len(indices)))
    /\ [](pc = "done" /\ ~quitting => Len(shown) = Len(cards) + CountCmd("s"))
    /\ [](Len(shown) <= Len(cards) + CountCmd("s"))

C16_Witness ==
    /\ pc = "done" /\ ~quitting
    /\ CountCmd("s") = 2
    /\ Len(shown) = Len(cards) + 2
    /\ last_msg = "summary"

\* C17: whatever is typed at the answer prompt, the step taken there prints the
\* reveal and moves to the grade prompt of the same card, with both counters,
\* the queue, the cursor and the quit flag unchanged and no grade taken; the
\* quit flag is raised at the grade prompt alone.
C17_AnswerIsNeverACommand ==
    /\ [][pc = "answer" =>
            /\ pc' = "grade"
            /\ last_msg' \in {"your answer, correct answer", "correct answer"}
            /\ idx' = idx /\ i' = i /\ indices' = indices
            /\ total_seen' = total_seen /\ correct' = correct
            /\ quitting' = quitting
            /\ grades' = grades /\ shown' = shown]_vars
    /\ [][(~quitting /\ quitting') => pc = "grade"]_vars
    /\ [](pc = "grade" => (Len(shown) = i + 1 /\ shown[i + 1].card = idx))

C17_Witness ==
    /\ pc = "grade"
    /\ last_msg = "your answer, correct answer"
    /\ ~quitting
    /\ Len(shown) = 2
    /\ total_seen = 1
    /\ i = 1

\* C18: no step of a session changes the card list: its length, its order and
\* its cards stay those passed to run_quiz, whatever the commands, and every
\* card presented is one of that list.
C18_CardListUntouched ==
    /\ [][cards' = cards]_vars
    /\ [](cards \in QuizDecks)
    /\ [](\A k \in 1..Len(shown) : shown[k].card + 1 \in 1..Len(cards))

C18_Witness ==
    /\ pc = "done" /\ ~quitting
    /\ cards = [k \in 1..2 |-> SampleCard(k)]
    /\ CountCmd("s") >= 1
    /\ CountCmd("g") >= 1
    /\ Len(indices) > Len(cards)

-----------------------------------------------------------------------------
(* The whole run: main. *)

\* the lines of the deck files main is run on
MainLines ==
    {<<"a", ":", ":", ":", "b">>,
     <<" ", "a", " ", ":", ":", ":", " ", "b", " ", ":", ":", ":", " ", "B", ",", " ", "a", ",", ",", "A", " ">>,
     <<"a", ":", ":", "b">>}

MainDecks == UNION {[1..n -> MainLines] : n \in 0..MaxCards}

\* main is started on a deck path that names a file or does not
MainInit ==
    /\ pc = "load_cards"
    /\ file_exists \in BOOLEAN
    /\ deck \in (IF file_exists THEN MainDecks ELSE {<<>>})
    /\ final_newline = (deck # <<>>)
    /\ line_no = 0 /\ current_section = None /\ cards = <<>>
    /\ out = <<>> /\ error = NoError
    /\ request = None /\ chosen = None
    /\ indices = <<>> /\ i = 0 /\ idx = 0 /\ correct = 0 /\ total_seen = 0
    /\ quitting = FALSE /\ last_msg = "" /\ shown = <<>> /\ grades = <<>>
    /\ report = None

\* variant: the error is printed and the run goes on
MainLoadFailed_GoesOn ==
    /\ pc = "load_failed"
    /\ out' = Append(out, [msg |-> "Error loading deck", error |-> error])
    /\ pc' = "choose_topic_subset"
    /\ UNCHANGED cards
    /\ UNCHANGED <<loadVars, chooseVars, quizVars>>

\* except Exception: print the error, sys.exit(1)
MainLoadFailed ==
    /\ pc = "load_failed"
    /\ out' = Append(out, [msg |-> "Error loading deck", error |-> error])
    /\ pc' = "exit_1"
    /\ UNCHANGED cards
    /\ UNCHANGED <<loadVars, chooseVars, quizVars>>

\* load_cards has returned: choose_topic_subset is called on its cards
MainChoose ==
    /\ pc = "loaded"
    /\ pc' = "choose_topic_subset"
    /\ UNCHANGED <<cards, out>>
    /\ UNCHANGED <<loadVars, chooseVars, quizVars>>

\* cards = choose_topic_subset(cards); run_quiz(cards)
MainRunQuiz ==
    /\ pc = "chosen"
    /\ cards' = chosen
    /\ pc' = "run_quiz"
    /\ UNCHANGED out
    /\ UNCHANGED <<loadVars, chooseVars, quizVars>>

\* run_quiz has returned and main ends
MainExit ==
    /\ pc = "done"
    /\ pc' = "exit_0"
    /\ UNCHANGED <<cards, out>>
    /\ UNCHANGED <<loadVars, chooseVars, quizVars>>

MainNext ==
    \/ LoadNext
    \/ MainLoadFailed
    \/ MainChoose
    \/ ChooseNext
    \/ MainRunQuiz
    \/ Next
    \/ MainExit

MainSpec == MainInit /\ [][MainNext]_vars

\* where main is while load_cards, choose_topic_subset and run_quiz run
InLoad == pc \in {"load_cards", "load_loop", "loaded", "load_failed"}

InChoose == pc \in {"choose_topic_subset", "choose_prompt", "chosen"}

InQuiz == pc \in {"run_quiz", "loop", "answer", "grade", "g_counted", "done"}

\* nothing of the topic selection or of the session has happened
NothingBeyondLoad ==
    /\ request = None /\ chosen = None
    /\ \A k \in 1..Len(out) : out[k].msg \in {"missing separator", "not enough fields",
                                              "empty front/back", "Error loading deck"}
    /\ indices = <<>> /\ shown = <<>> /\ grades = <<>> /\ last_msg = "" /\ report = None

\* the messages choose_topic_subset prints last, before it returns
SelectionResults ==
    {"No topics found in deck; using all cards.", "Using all cards.",
     "No cards matched those topics. Using all cards instead.",
     "Using cards matching selected topics."}

\* C12: a failed load (no file, or no valid card line) leads to exit code 1 and
\* to nothing else: no topic listing or prompt, no session, no card; after a
\* successful load choose_topic_subset has returned before the session starts,
\* the session runs on the cards it returned, and the run can only end with
\* exit code 0, whether the session ended by "q" or by exhausting the queue.
C12_LoadFailureIsFatal ==
    /\ [](error # NoError <=> pc \in {"load_failed", "exit_1"})
    /\ [](pc = "exit_1" =>
            /\ ~file_exists \/ \A k \in 1..Len(deck) : ~IsValidCardLine(deck[k])
            /\ NothingBeyondLoad
            /\ out # <<>> /\ out[Len(out)].msg = "Error loading deck")
    /\ [](InLoad => NothingBeyondLoad)
    /\ [](InChoose => (cards # <<>> /\ indices = <<>> /\ shown = <<>> /\ last_msg = ""))
    /\ []((InQuiz \/ pc = "exit_0") =>
            /\ out # <<>> /\ out[Len(out)].msg \in SelectionResults
            /\ cards = chosen /\ cards # <<>>)
    /\ [][pc' = "run_quiz" => pc = "chosen"]_vars
    /\ [][pc' = "choose_topic_subset" => pc = "loaded"]_vars
    /\ [](pc = "exit_0" => (report.seen = total_seen /\ last_msg = "summary"
                              /\ (quitting \/ i = Len(indices))))
    /\ [][pc = "load_failed" => pc' = "exit_1"]_vars
    /\ [][pc = "done" => pc' = "exit_0"]_vars
    /\ [][pc \notin {"exit_0", "exit_1"}]_vars

C12_Witness ==
    /\ pc = "exit_1"
    /\ error = "ValueError"
    /\ Len(deck) = 2
    /\ Len(out) = 3

=============================================================================
